---- MODULE Spec2Model ----
(***************************************************************************)
(* A model of ePICJobSubmitter.py: one run of main() lists a remote        *)
(* directory, splits the files found into jobs, writes the per-job input   *)
(* lists, the Condor items file and the Condor submit file, and calls      *)
(* condor_submit.                                                          *)
(*                                                                         *)
(* Text is modelled as a sequence of tokens (strings).  The characters the *)
(* code's string operations look at -- the newline, blanks, "/" and the    *)
(* ", " field separator -- are tokens of their own, so that joining,       *)
(* splitting and stripping are computed, not assumed.                      *)
(***************************************************************************)
EXTENDS Integers, Sequences, FiniteSets, TLC

VARIABLES
    args,          \* the parsed command line (lines 10-17)
    pc,            \* the statement main() is at
    status,        \* "running", "returned" (main returned) or "crashed" (uncaught exception)
    listOutcome,   \* how the xrdfs call ended: "none", "ok", "exit_nonzero", "spawn_failed"
    files,         \* the list `files` (line 28)
    total_files,   \* line 38
    n_requested,   \* line 39
    i,             \* the loop variable of line 57 (the next index to run)
    slices,        \* the (start, end) pairs of lines 59-60, one per iteration run
    job_rows,      \* line 55
    dirs,          \* directories that exist under the output tree
    fs,            \* files under the output tree: path -> text
    out,           \* what was printed, in order
    submitOutcome, \* how condor_submit ended: "none", "ok", "exit_nonzero", "spawn_failed"
    submitCalls,   \* the descriptor paths handed to condor_submit, in order
    prev,          \* the names produced by the previous completed run, if any
    remote         \* the number of entries the remote directory holds

vars == <<args, pc, status, listOutcome, files, total_files, n_requested, i, slices,
          job_rows, dirs, fs, out, submitOutcome, submitCalls, prev, remote>>

\* ---------------------------------------------------------------- bounds

\* The largest number of entries the remote directory holds.
MaxFiles == 10
\* The largest --njobs value tried (the smallest is -1).
MaxJobs == 4
\* The same two bounds for the specification that repeats runs.
MaxFilesRerun == 3
MaxJobsRerun == 3

\* --njobs is type=int with no range check (line 15): negative values parse too.
NJobsSet == (0 - 1) .. MaxJobs
TagSet == {<<"ep">>, <<"mu">>}
OutputDirSet == {<<".", "/", "results">>, <<"out", "/">>}
JobArgsSet == {<<>>, <<"-v">>}

\* ---------------------------------------------------------------- text

NL == "\n"
FieldSep == ", "

Min(a, b) == IF a <= b THEN a ELSE b

Digits == <<"0", "1", "2", "3", "4", "5", "6", "7", "8", "9">>

\* str(n) for n >= 0, one token per digit.
RECURSIVE Str(_)
Str(n) == IF n < 10 THEN <<Digits[n + 1]>>
          ELSE Str(n \div 10) \o <<Digits[(n % 10) + 1]>>

IsSpace(c) == c \in {" ", "\t"}

\* str.strip(): from the first to the last token that is not a blank
Strip(t) ==
    LET keep == {j \in 1 .. Len(t) : ~IsSpace(t[j])}
    IN  IF keep = {} THEN <<>>
        ELSE SubSeq(t, CHOOSE j \in keep : \A m \in keep : j <= m,
                       CHOOSE j \in keep : \A m \in keep : m <= j)

\* str.split(sep): the pieces between the separators, empty pieces kept.
SplitAt(t, sep) ==
    LET at == {j \in 1 .. Len(t) : t[j] = sep}
        nth(m) == CHOOSE p \in at : Cardinality({q \in at : q <= p}) = m
        first(m) == IF m = 1 THEN 1 ELSE nth(m - 1) + 1
        last(m) == IF m = Cardinality(at) + 1 THEN Len(t) ELSE nth(m) - 1
    IN  [m \in 1 .. Cardinality(at) + 1 |-> SubSeq(t, first(m), last(m))]

\* str.splitlines(): as split at the newline, without the empty piece after a final newline.
SplitLines(t) ==
    LET parts == SplitAt(t, NL)
    IN  IF parts[Len(parts)] = <<>> THEN SubSeq(parts, 1, Len(parts) - 1) ELSE parts

\* sep.join(parts), from the j-th part on
RECURSIVE JoinFrom(_, _, _)
JoinFrom(parts, sep, j) ==
    IF j > Len(parts) THEN <<>>
    ELSE IF j = Len(parts) THEN parts[j]
    ELSE parts[j] \o <<sep>> \o JoinFrom(parts, sep, j + 1)

JoinWith(parts, sep) == JoinFrom(parts, sep, 1)

RECURSIVE ConcatFrom(_, _)
ConcatFrom(parts, j) ==
    IF j > Len(parts) THEN <<>> ELSE parts[j] \o ConcatFrom(parts, j + 1)

Concat(parts) == ConcatFrom(parts, 1)

JoinLines_NoSeparator(lines) == Concat(lines)

\* "\n".join(lines)  (lines 50, 66, 76)
JoinLines(lines) == JoinWith(lines, NL)

\* os.path.join(a, b)
PathJoin(a, b) ==
    IF b # <<>> /\ Head(b) = "/" THEN b
    ELSE IF a = <<>> \/ a[Len(a)] = "/" THEN a \o b
    ELSE a \o <<"/">> \o b

\* ---------------------------------------------------------------- the remote listing

\* The k-th entry xrdfs prints for the directory.
Entry(k) == <<"/d/f">> \o Str(k)

Layouts == {"plain", "padded"}

\* What `xrdfs ls` prints for a directory of k entries: one entry per line, either
\* bare or with blanks around the entries and blank lines between them.
RECURSIVE Stdout(_, _)
Stdout(k, layout) ==
    IF k = 0 THEN (IF layout = "padded" THEN <<" ", NL>> ELSE <<>>)
    ELSE Stdout(k - 1, layout) \o
         (IF layout = "padded" THEN <<" ">> \o Entry(k) \o <<" ", "\t", NL, NL>>
          ELSE Entry(k) \o <<NL>>)

Locator(line) == <<"root://dtn-eic.jlab.org/">> \o Strip(line)

\* line 28
FilesOf(stdout) ==
    LET lines == SelectSeq(SplitLines(stdout), LAMBDA l : Strip(l) # <<>>)
    IN  [j \in 1 .. Len(lines) |-> Locator(lines[j])]

NoFiles_Never(fl) == FALSE

\* line 30: `if not files`
NoFiles(fl) == fl = <<>>

NRequested_IgnoreRequest(njobs, total) == total

NRequested_AtLeastOne(njobs, total) == IF Min(njobs, total) < 1 THEN 1 ELSE Min(njobs, total)

\* line 39
NRequested(njobs, total) == Min(njobs, total)

\* ---------------------------------------------------------------- names

\* line 44
JobFolder(a) == PathJoin(a.output_dir, <<"job_">> \o a.tag)
\* line 48
InputListFile(a) == PathJoin(JobFolder(a), a.tag \o <<".list">>)
\* line 53
MasterCondorFile(a) == PathJoin(JobFolder(a), <<"submit_">> \o a.tag \o <<".sub">>)
\* line 54
CondorItemsFile(a) == PathJoin(JobFolder(a), a.tag \o <<".items">>)
\* line 64
JobInputTxt(a, filenumber) ==
    PathJoin(JobFolder(a), a.tag \o <<"_">> \o Str(filenumber) \o <<"_input.txt">>)
\* line 69
OutputRoot(a, filenumber) ==
    PathJoin(JobFolder(a), a.tag \o <<"_">> \o Str(filenumber) \o <<".root">>)
\* line 70
JobTag(a, filenumber) == a.tag \o <<"_">> \o Str(filenumber)
\* line 73
JobRow(a, filenumber) ==
    JobInputTxt(a, filenumber) \o <<FieldSep>> \o OutputRoot(a, filenumber)
        \o <<FieldSep>> \o JobTag(a, filenumber)

\* ---------------------------------------------------------------- the split

Slice_Truncated(k, total, n) == <<k * (total \div n), (k + 1) * (total \div n)>>

Slice_Ceiling(k, total, n) ==
    <<(k * total + n - 1) \div n, ((k + 1) * total + n - 1) \div n>>

Slice_Chunked(k, total, n) ==
    LET chunk == (total + n - 1) \div n
    IN  <<Min(k * chunk, total), Min((k + 1) * chunk, total)>>

\* lines 59-60: <<start, end>> of iteration k (n > 0 there, so // is \div)
Slice(k, total, n) == <<(k * total) \div n, ((k + 1) * total) \div n>>

\* files[start:end] with 0 <= start <= end <= len(files)  (line 61)
PySlice(fl, start, end) == SubSeq(fl, start + 1, Min(end, Len(fl)))

\* ---------------------------------------------------------------- the submit file

\* lines 79-91
DescriptorText(a) ==
    LET extra == IF a.job_args # <<>> THEN <<" ">> \o a.job_args ELSE <<>>
    IN  <<"# HTCondor Submit File - V24 Compatible", NL>>
        \o <<"Universe       = vanilla", NL>>
        \o <<"Executable     = ">> \o a.exec \o <<NL>>
        \o <<"getenv         = true", NL>>
        \o <<"request_memory = 4G", NL>>
        \o <<"notification   = Never", NL, NL>>
        \o <<"Arguments      = $(InFile) $(OutFile)">> \o extra \o <<NL>>
        \o <<"Output         = ">> \o JobFolder(a) \o <<"/$(Tag).out", NL>>
        \o <<"Error          = ">> \o JobFolder(a) \o <<"/$(Tag).err", NL>>
        \o <<"Log            = ">> \o JobFolder(a) \o <<"/$(Tag).log", NL, NL>>
        \o <<"queue InFile, OutFile, Tag from ">> \o CondorItemsFile(a) \o <<NL>>

\* ---------------------------------------------------------------- the file system

NoFilesYet == [p \in {} |-> <<>>]

Put(f, path, text) == [p \in (DOMAIN f) \cup {path} |-> IF p = path THEN text ELSE f[p]]

WriteOutcomes_ErrorsSwallowed(f, path, text) ==
    {[fs |-> Put(f, path, text), ok |-> TRUE], [fs |-> f, ok |-> TRUE]}
    \cup {[fs |-> Put(f, path, SubSeq(text, 1, n)), ok |-> TRUE] : n \in 0 .. Len(text) - 1}

\* `with open(path, "w") as f: f.write(text)`: the file is replaced by the text; or
\* open() raises and nothing changes; or the file is truncated and the write raises
\* part-way, leaving a proper prefix of the text.
WriteOutcomes(f, path, text) ==
    {[fs |-> Put(f, path, text), ok |-> TRUE], [fs |-> f, ok |-> FALSE]}
    \cup {[fs |-> Put(f, path, SubSeq(text, 1, n)), ok |-> FALSE] : n \in 0 .. Len(text) - 1}

\* ---------------------------------------------------------------- runs

ArgsSet == [tag : TagSet, exec : {<<"./job.sh">>}, output_dir : OutputDirSet,
            njobs : NJobsSet, job_args : JobArgsSet]

NoRun == [valid |-> FALSE, tag |-> <<>>, output_dir |-> <<>>, njobs |-> 0, total |-> 0,
          tags |-> {}, paths |-> {}]

ArgsSetRerun == [tag : TagSet, exec : {<<"./job.sh">>}, output_dir : OutputDirSet,
                 njobs : 0 .. MaxJobsRerun, job_args : {<<>>}]

\* The state at the top of main(), after parse_args, in an empty output tree, with r
\* entries in the remote directory.
Fresh(a, r) ==
    /\ args = a
    /\ remote = r
    /\ pc = "list"
    /\ status = "running"
    /\ listOutcome = "none"
    /\ files = <<>>
    /\ total_files = 0
    /\ n_requested = 0
    /\ i = 0
    /\ slices = <<>>
    /\ job_rows = <<>>
    /\ dirs = {}
    /\ fs = NoFilesYet
    /\ out = <<"Listing">>
    /\ submitOutcome = "none"
    /\ submitCalls = <<>>

Init == /\ \E a \in ArgsSet, r \in 0 .. MaxFiles : Fresh(a, r)
        /\ prev = NoRun

InitRerun == /\ \E a \in ArgsSetRerun, r \in 0 .. MaxFilesRerun : Fresh(a, r)
             /\ prev = NoRun

Crash == status' = "crashed"

\* lines 23-40: the xrdfs call, the list of locators, the empty check, the job count.
ListFiles ==
    /\ pc = "list" /\ status = "running"
    /\ \/ \* the xrdfs binary cannot be started: OSError, which nothing catches
          /\ listOutcome' = "spawn_failed"
          /\ Crash
          /\ UNCHANGED <<files, total_files, n_requested, out, pc>>
       \/ \* xrdfs exits non-zero: CalledProcessError (lines 34-36)
          /\ listOutcome' = "exit_nonzero"
          /\ out' = Append(out, "ListError")
          /\ status' = "returned"
          /\ UNCHANGED <<files, total_files, n_requested, pc>>
       \/ \E layout \in Layouts :
            LET fl == FilesOf(Stdout(remote, layout)) IN
            /\ listOutcome' = "ok"
            /\ files' = fl
            /\ IF NoFiles(fl)
               THEN /\ out' = Append(out, "NoFiles")
                    /\ status' = "returned"
                    /\ UNCHANGED <<total_files, n_requested, pc>>
               ELSE /\ total_files' = Len(fl)
                    /\ n_requested' = NRequested(args.njobs, Len(fl))
                    /\ out' = Append(out, "Found")
                    /\ pc' = "mkdir_out"
                    /\ UNCHANGED status
    /\ UNCHANGED <<args, i, slices, job_rows, dirs, fs, submitOutcome, submitCalls, prev, remote>>

\* line 43
MakeOutputDir ==
    /\ pc = "mkdir_out" /\ status = "running"
    /\ \/ /\ dirs' = dirs \cup {args.output_dir}
          /\ pc' = "mkdir_job"
          /\ UNCHANGED status
       \/ /\ Crash
          /\ UNCHANGED <<dirs, pc>>
    /\ UNCHANGED <<args, listOutcome, files, total_files, n_requested, i, slices, job_rows,
                   fs, out, submitOutcome, submitCalls, prev, remote>>

\* lines 44-45
MakeJobFolder ==
    /\ pc = "mkdir_job" /\ status = "running"
    /\ \/ /\ dirs' = dirs \cup {JobFolder(args)}
          /\ pc' = "write_list"
          /\ UNCHANGED status
       \/ /\ Crash
          /\ UNCHANGED <<dirs, pc>>
    /\ UNCHANGED <<args, listOutcome, files, total_files, n_requested, i, slices, job_rows,
                   fs, out, submitOutcome, submitCalls, prev, remote>>

\* lines 48-50
WriteInputList ==
    /\ pc = "write_list" /\ status = "running"
    /\ \E w \in WriteOutcomes(fs, InputListFile(args), JoinLines(files)) :
         /\ fs' = w.fs
         /\ IF w.ok THEN pc' = "loop" /\ UNCHANGED status
                    ELSE Crash /\ UNCHANGED pc
    /\ UNCHANGED <<args, listOutcome, files, total_files, n_requested, i, slices, job_rows,
                   dirs, out, submitOutcome, submitCalls, prev, remote>>

\* lines 57-73: one iteration of the loop
PartitionStep ==
    /\ pc = "loop" /\ status = "running"
    /\ i < n_requested
    /\ LET filenumber == i + 1
           se == Slice(i, total_files, n_requested)
           files_for_job == PySlice(files, se[1], se[2])
       IN  \E w \in WriteOutcomes(fs, JobInputTxt(args, filenumber), JoinLines(files_for_job)) :
             /\ fs' = w.fs
             /\ slices' = Append(slices, se)
             /\ IF w.ok
                THEN /\ job_rows' = Append(job_rows, JobRow(args, filenumber))
                     /\ i' = i + 1
                     /\ UNCHANGED status
                ELSE /\ Crash
                     /\ UNCHANGED <<job_rows, i>>
    /\ UNCHANGED <<args, pc, listOutcome, files, total_files, n_requested, dirs, out,
                   submitOutcome, submitCalls, prev, remote>>

\* lines 75-76, reached when range(n_requested) is exhausted
WriteItems ==
    /\ pc = "loop" /\ status = "running"
    /\ ~(i < n_requested)
    /\ \E w \in WriteOutcomes(fs, CondorItemsFile(args), JoinLines(job_rows)) :
         /\ fs' = w.fs
         /\ IF w.ok THEN pc' = "write_sub" /\ UNCHANGED status
                    ELSE Crash /\ UNCHANGED pc
    /\ UNCHANGED <<args, listOutcome, files, total_files, n_requested, i, slices, job_rows,
                   dirs, out, submitOutcome, submitCalls, prev, remote>>

\* lines 79-91
WriteDescriptor ==
    /\ pc = "write_sub" /\ status = "running"
    /\ \E w \in WriteOutcomes(fs, MasterCondorFile(args), DescriptorText(args)) :
         /\ fs' = w.fs
         /\ IF w.ok THEN pc' = "submit" /\ UNCHANGED status
                    ELSE Crash /\ UNCHANGED pc
    /\ UNCHANGED <<args, listOutcome, files, total_files, n_requested, i, slices, job_rows,
                   dirs, out, submitOutcome, submitCalls, prev, remote>>

\* lines 94-99
Submit ==
    /\ pc = "submit" /\ status = "running"
    /\ submitCalls' = Append(submitCalls, MasterCondorFile(args))
    /\ \/ \* exit status 0
          /\ submitOutcome' = "ok"
          /\ out' = out \o <<"Submitting", "SubmitOK">>
          /\ pc' = "end" /\ status' = "returned"
       \/ \* non-zero exit status: CalledProcessError, caught on line 98
          /\ submitOutcome' = "exit_nonzero"
          /\ out' = out \o <<"Submitting", "SubmitError">>
          /\ pc' = "end" /\ status' = "returned"
       \/ \* condor_submit cannot be started: OSError, which `except CalledProcessError`
          \* does not catch
          /\ submitOutcome' = "spawn_failed"
          /\ out' = Append(out, "Submitting")
          /\ Crash /\ UNCHANGED pc
    /\ UNCHANGED <<args, listOutcome, files, total_files, n_requested, i, slices, job_rows,
                   dirs, fs, prev, remote>>

\* The fields of a row of the items file, as `queue ... from` reads them.
RowFields(row) == SplitAt(row, FieldSep)

\* The tags and the paths the run has generated so far.
RunTags == {RowFields(job_rows[k])[3] : k \in 1 .. Len(job_rows)}
RunPaths == (DOMAIN fs) \cup {RowFields(job_rows[k])[2] : k \in 1 .. Len(job_rows)}

\* main() has returned from line 97 or 99; the program is started again, with a new
\* command line and remote directory, in an empty output tree.  The names the finished
\* run generated are kept in prev.
Rerun ==
    /\ pc = "end" /\ status = "returned"
    /\ prev' = [valid |-> TRUE, tag |-> args.tag, output_dir |-> args.output_dir,
                njobs |-> args.njobs, total |-> total_files,
                tags |-> RunTags, paths |-> RunPaths]
    /\ args' \in ArgsSetRerun
    /\ remote' \in 0 .. MaxFilesRerun
    /\ pc' = "list"
    /\ status' = "running"
    /\ listOutcome' = "none"
    /\ files' = <<>>
    /\ total_files' = 0
    /\ n_requested' = 0
    /\ i' = 0
    /\ slices' = <<>>
    /\ job_rows' = <<>>
    /\ dirs' = {}
    /\ fs' = NoFilesYet
    /\ out' = <<"Listing">>
    /\ submitOutcome' = "none"
    /\ submitCalls' = <<>>

Next == \/ ListFiles
        \/ MakeOutputDir
        \/ MakeJobFolder
        \/ WriteInputList
        \/ PartitionStep
        \/ WriteItems
        \/ WriteDescriptor
        \/ Submit

Spec == Init /\ [][Next]_vars

NextRerun == \/ ListFiles
             \/ MakeOutputDir
             \/ MakeJobFolder
             \/ WriteInputList
             \/ PartitionStep
             \/ WriteItems
             \/ WriteDescriptor
             \/ Submit
             \/ Rerun

SpecRerun == InitRerun /\ [][NextRerun]_vars

\* ---------------------------------------------------------------- properties

\* nEffective as the specification defines it: min(nRequested, total).
NEffective == Min(args.njobs, Len(files))

\* Source resolution succeeded: the listing call returned and gave at least one entry.
Listed == listOutcome = "ok" /\ files # <<>>

\* Source resolution failed: the listing call errored, or gave no non-blank entry.
ResolutionFailed ==
    \/ listOutcome \in {"exit_nonzero", "spawn_failed"}
    \/ listOutcome = "ok" /\ files = <<>>

\* The partition loop has run to its end.
LoopDone == \/ pc \in {"write_sub", "submit", "end"}
            \/ pc = "loop" /\ ~(i < n_requested)

\* The items file has been written.
ManifestWritten == pc \in {"write_sub", "submit", "end"}

\* Every name of the run has been generated.
RunComplete == pc \in {"submit", "end"}

Size(k) == slices[k][2] - slices[k][1]

Sizes == [k \in 1 .. Len(slices) |-> Size(k)]

\* The item lists read back from the per-partition input files 1 .. n, in order.
ReadBack(n) == Concat([k \in 1 .. n |-> SplitLines(fs[JobInputTxt(args, k)])])

\* C1: for total >= 1 and nRequested >= 1 the slices computed so far start at 0, are
\* contiguous (each end is the next start) and ordered; once the loop has ended there
\* are exactly min(nRequested, total) of them, the last end is total, and every item
\* index lies in exactly one slice.
C1_SlicesPartitionTheItems ==
    (Listed /\ args.njobs >= 1) =>
        /\ Len(slices) <= NEffective
        /\ (slices # <<>> => slices[1][1] = 0)
        /\ \A k \in 1 .. Len(slices) : slices[k][1] <= slices[k][2]
        /\ \A k \in 1 .. Len(slices) - 1 : slices[k][2] = slices[k + 1][1]
        /\ LoopDone =>
              /\ Len(slices) = NEffective
              /\ slices[Len(slices)][2] = Len(files)
              /\ \A x \in 0 .. Len(files) - 1 :
                    Cardinality({k \in 1 .. Len(slices) :
                                    slices[k][1] <= x /\ x < slices[k][2]}) = 1

C1_Witness ==
    /\ pc = "end" /\ submitOutcome = "ok"
    /\ Len(files) = 7 /\ args.njobs = 4
    /\ slices = <<<<0, 1>>, <<1, 3>>, <<3, 5>>, <<5, 7>>>>

\* C2 as stated: once the loop has ended, the partition sizes of the run are in
\* non-increasing order of index.
C2_SizesNonIncreasing ==
    (Listed /\ args.njobs >= 1 /\ LoopDone) =>
        \A j \in 1 .. Len(slices) : \A k \in j .. Len(slices) : Size(j) >= Size(k)

\* C2 as amended: once the loop has ended no partition is smaller than the first and
\* none is larger than the last (the sizes need not be monotonic in between); 10 items
\* and nRequested = 3 give the sizes 3, 3, 4 for the tags tag_1, tag_2, tag_3.
C2_FirstSmallestLastLargest ==
    (Listed /\ args.njobs >= 1 /\ LoopDone) =>
        /\ \A k \in 1 .. Len(slices) : Size(1) <= Size(k) /\ Size(k) <= Size(Len(slices))
        /\ (Len(files) = 10 /\ args.njobs = 3) =>
              /\ Sizes = <<3, 3, 4>>
              /\ [k \in 1 .. 3 |-> RowFields(job_rows[k])[3]]
                    = <<args.tag \o <<"_", "1">>, args.tag \o <<"_", "2">>,
                        args.tag \o <<"_", "3">>>>

C2_Witness ==
    /\ pc = "end" /\ Len(files) = 10 /\ args.njobs = 3
    /\ Sizes = <<3, 3, 4>>

\* C3: for total >= 1 and nRequested >= 1 every partition size is floor(total/nEffective)
\* or ceil(total/nEffective), so sizes differ by at most 1 and no partition is empty;
\* nRequested > total gives total partitions of size 1.
C3_SizesFloorOrCeil ==
    (Listed /\ args.njobs >= 1) =>
        /\ \A k \in 1 .. Len(slices) :
              /\ Size(k) \in {Len(files) \div NEffective,
                              (Len(files) + NEffective - 1) \div NEffective}
              /\ Size(k) >= 1
        /\ \A j, k \in 1 .. Len(slices) : Size(j) - Size(k) <= 1
        /\ (LoopDone /\ args.njobs > Len(files)) =>
              Sizes = [k \in 1 .. Len(files) |-> 1]

C3_Witness ==
    /\ pc = "end" /\ Len(files) = 3 /\ args.njobs = 4
    /\ Sizes = <<1, 1, 1>>

\* C4: for total >= 1 and nRequested >= 1, once the loop has ended, the item lists
\* read back from the input files of partitions 1 .. nEffective, concatenated in that
\* order, are the original item sequence.
C4_RoundTrip ==
    (Listed /\ args.njobs >= 1 /\ LoopDone) =>
        /\ \A k \in 1 .. NEffective : JobInputTxt(args, k) \in DOMAIN fs
        /\ ReadBack(NEffective) = files

C4_Witness ==
    /\ pc = "end" /\ Len(files) = 5 /\ args.njobs = 2
    /\ Len(SplitLines(fs[JobInputTxt(args, 2)])) = 3

\* C5: once the items file is written it holds exactly nEffective rows, and row k is
\* (the input-list file written for partition k, the output path of k, the tag of k).
C5_ManifestRows ==
    ManifestWritten =>
        LET rows == SplitLines(fs[CondorItemsFile(args)])
        IN  /\ Len(rows) = NEffective
            /\ \A k \in 1 .. NEffective :
                  /\ RowFields(rows[k])
                        = <<JobInputTxt(args, k), OutputRoot(args, k), JobTag(args, k)>>
                  /\ JobInputTxt(args, k) \in DOMAIN fs

\* C6: when source resolution fails the run has ended at the listing step: no
\* directory exists, no file is written, no slice is computed and condor_submit is
\* never called.
C6_FailedResolutionHasNoEffects ==
    ResolutionFailed =>
        /\ status # "running" /\ pc = "list"
        /\ dirs = {} /\ DOMAIN fs = {}
        /\ slices = <<>> /\ job_rows = <<>>
        /\ submitCalls = <<>>

C6_Witness ==
    /\ listOutcome = "ok" /\ files = <<>> /\ status = "returned"
    /\ out = <<"Listing", "NoFiles">>

\* C7: however the submission fails (non-zero exit, or the process cannot be started)
\* the failure is printed as a submission error, condor_submit was called once, and
\* main() returns normally.  Stated for runs with a positive --njobs, the inputs the
\* specification allows.
C7_SubmitFailureReported ==
    (args.njobs >= 1 /\ submitOutcome \in {"exit_nonzero", "spawn_failed"}) =>
        /\ status = "returned" /\ pc = "end"
        /\ out[Len(out)] = "SubmitError"
        /\ Len(submitCalls) = 1

Rank == [p \in {"list", "mkdir_out", "mkdir_job", "write_list", "loop", "write_sub",
                "submit", "end"} |->
            CASE p = "list" -> 1 [] p = "mkdir_out" -> 2 [] p = "mkdir_job" -> 3
              [] p = "write_list" -> 4 [] p = "loop" -> 5 [] p = "write_sub" -> 6
              [] p = "submit" -> 7 [] p = "end" -> 8]

C8_Artifacts ==
    /\ Len(submitCalls) <= 1
    /\ submitCalls # <<>> =>
          /\ submitCalls[1] = MasterCondorFile(args)
          /\ Len(slices) = IF NEffective > 0 THEN NEffective ELSE 0
          /\ \A k \in 1 .. NEffective :
                /\ JobInputTxt(args, k) \in DOMAIN fs
                /\ fs[JobInputTxt(args, k)]
                      = JoinLines(SubSeq(files, slices[k][1] + 1, slices[k][2]))
          /\ CondorItemsFile(args) \in DOMAIN fs
          /\ fs[CondorItemsFile(args)] = JoinLines([k \in 1 .. NEffective |-> JobRow(args, k)])
          /\ MasterCondorFile(args) \in DOMAIN fs
          /\ fs[MasterCondorFile(args)] = DescriptorText(args)
    /\ (status # "running" /\ Rank[pc] < Rank["submit"]) =>
          /\ submitCalls = <<>>
          /\ \/ MasterCondorFile(args) \notin DOMAIN fs
             \/ fs[MasterCondorFile(args)] # DescriptorText(args)

C8_Step ==
    /\ status = "running"
    /\ Rank[pc'] \in {Rank[pc], Rank[pc] + 1}
    /\ pc' = pc => (status' # "running" \/ (pc = "loop" /\ i' = i + 1))
    /\ Len(submitCalls') > Len(submitCalls) => pc = "submit"

\* C8: the stages run in the order resolve, per-partition lists, items file,
\* descriptor, submit, each entered at most once and none after the run has ended;
\* condor_submit is called at most once and only when every per-partition input list,
\* the items file and the descriptor hold their complete text; a run that ends before
\* the submit step has no complete descriptor and has not called condor_submit.
C8_StagesInOrder == [](C8_Artifacts) /\ [][C8_Step]_vars

C8_Witness ==
    /\ pc = "end" /\ submitOutcome = "exit_nonzero"
    /\ Len(submitCalls) = 1 /\ NEffective = 4 /\ Len(files) = 9

\* C9 as stated: two completed runs with the same prefix, output directory and
\* requested count generate the same tags and the same paths.
C9_SameRequestSameNames ==
    (/\ prev.valid /\ RunComplete
     /\ prev.tag = args.tag /\ prev.output_dir = args.output_dir
     /\ prev.njobs = args.njobs) =>
        (prev.tags = RunTags /\ prev.paths = RunPaths)

\* C9 as amended: two completed runs with the same prefix, output directory and
\* effective count min(nRequested, total) generate the same tags and the same paths.
C9_SameEffectiveSameNames ==
    (/\ prev.valid /\ RunComplete
     /\ prev.tag = args.tag /\ prev.output_dir = args.output_dir
     /\ Min(prev.njobs, prev.total) = NEffective) =>
        (prev.tags = RunTags /\ prev.paths = RunPaths)

C9_Witness ==
    /\ prev.valid /\ pc = "end"
    /\ prev.tag = args.tag /\ prev.output_dir = args.output_dir
    /\ prev.njobs = 3 /\ prev.total = 2
    /\ args.njobs = 2 /\ Len(files) = 3
    /\ Cardinality(RunTags) = 2 /\ prev.tags = RunTags

\* C10: with a non-empty listing and --njobs <= 0 the run never returns early: the
\* job count is non-positive, no slice is computed and no per-partition file is
\* written, the items file is empty, the descriptor is written in full and
\* condor_submit is called, with no item covered by any partition.
C10_NonPositiveCountStillSubmits ==
    (Listed /\ args.njobs <= 0) =>
        /\ n_requested = NEffective /\ n_requested <= 0
        /\ slices = <<>> /\ job_rows = <<>>
        /\ DOMAIN fs \subseteq
              {InputListFile(args), CondorItemsFile(args), MasterCondorFile(args)}
        /\ (status = "returned" => pc = "end")
        /\ (status = "running" => ENABLED Next)
        /\ (ManifestWritten => SplitLines(fs[CondorItemsFile(args)]) = <<>>)
        /\ (RunComplete => fs[MasterCondorFile(args)] = DescriptorText(args))
        /\ (pc = "end" => submitCalls = <<MasterCondorFile(args)>>)

C10_Witness ==
    /\ args.njobs <= 0 /\ Len(files) >= 1
    /\ pc = "end" /\ submitOutcome = "ok"
    /\ submitCalls = <<MasterCondorFile(args)>>
    /\ slices = <<>> /\ fs[CondorItemsFile(args)] = <<>>

====
